---- MODULE Spec2Model ----
(***************************************************************************)
(* A model of summarize_script.py: one run of the RSS summarization        *)
(* script (feed ingestion with the recency filter, title clustering,       *)
(* story ranking, full-text extraction with its fallback, summarization    *)
(* and the write of the output feed).                                      *)
(*                                                                         *)
(* Time is counted in whole hours.  A text is a run-length encoded string: *)
(* a sequence of runs [ch, n], n > 0 characters of class ch; the class     *)
(* "ws" is whitespace.  An optional value (Python's None or a value) is a  *)
(* record [some, val].                                                     *)
(***************************************************************************)
EXTENDS Integers, Sequences, FiniteSets, TLC

\* ------------------------------------------------------------ configuration

HOURS_WINDOW == 12
TITLE_SIMILARITY_THRESHOLD == 85
MAX_ITEMS_PER_SOURCE_FEED == 7
\* fetch_full_article_text: the least text accepted, the character budget
MIN_EXTRACTED_CHARS == 200
max_chars_for_summary == 25000
\* summarize_text_with_gemini: the least text it summarizes
MIN_SUMMARY_INPUT_CHARS == 100

\* ------------------------------------------------------------------ bounds

\* feeds of SOURCE_RSS_FEEDS that the run iterates over
NumFeeds == 2
\* candidate articles one run collects
MaxArticles == 3
\* articles handed to group_articles when it is checked on its own
MaxGroupInput == 4
\* <p> elements of a page, and article containers of a page
MaxParas == 2
MaxTags == 1

\* ------------------------------------------------------------------- texts

None == [some |-> FALSE, val |-> <<>>]
Some(v) == [some |-> TRUE, val |-> v]

Txt(c, n) == IF n = 0 THEN <<>> ELSE <<[ch |-> c, n |-> n]>>

RECURSIVE TextLen(_)
TextLen(t) == IF t = <<>> THEN 0 ELSE Head(t).n + TextLen(Tail(t))

RECURSIVE LStrip(_)
LStrip(t) ==
    IF t = <<>> THEN <<>>
    ELSE IF Head(t).ch = "ws" THEN LStrip(Tail(t)) ELSE t

Reverse(s) == [k \in 1..Len(s) |-> s[Len(s) + 1 - k]]

\* str.strip(): the text without its leading and trailing whitespace
Strip(t) == Reverse(LStrip(Reverse(LStrip(t))))

\* text[:k]
RECURSIVE Prefix(_, _)
Prefix(t, k) ==
    IF t = <<>> \/ k <= 0 THEN <<>>
    ELSE IF Head(t).n <= k THEN <<Head(t)>> \o Prefix(Tail(t), k - Head(t).n)
    ELSE <<[ch |-> Head(t).ch, n |-> k]>>

\* Python's truth value of an optional string: None and "" are false
Truthy(o) == o.some /\ o.val # <<>>

\* Python's list.sort(key, reverse=True): the elements by key descending, the
\* elements of equal key in their original order (the sort is stable, also
\* when reversed).  less[<<i, j>>]: the key of s[i] is below the key of s[j].
StableSortDesc(s, less) ==
    LET n == Len(s)
        pos(i) == 1 + Cardinality({j \in 1..n :
                        \/ less[<<i, j>>]
                        \/ j < i /\ ~less[<<j, i>>] /\ ~less[<<i, j>>]})
    IN [p \in 1..n |-> s[CHOOSE i \in 1..n : pos(i) = p]]

IndexPairs(s) == (1..Len(s)) \X (1..Len(s))

RECURSIVE SeqsUpTo(_, _)
SeqsUpTo(S, n) ==
    IF n = 0 THEN {<<>>}
    ELSE LET shorter == SeqsUpTo(S, n - 1)
         IN shorter \cup {Append(q, x) : q \in {r \in shorter : Len(r) = n - 1}, x \in S}

\* ------------------------------------------------ fetch_full_article_text

\* A <p> element holding n characters of text between surrounding whitespace
RawPara(n) == Txt("ws", 1) \o Txt("p", n) \o Txt("ws", 1)

ParaLens == {0, 1, 99, 197, 198, 200, 24998, 25000, 25001}
ParaLists == SeqsUpTo({RawPara(n) : n \in ParaLens}, MaxParas)

\* p.get_text(separator=' ', strip=True)
get_text(p) == Strip(p)

\* [p.get_text(...) for p in paragraphs]
text_parts(paragraphs) == [k \in 1..Len(paragraphs) |-> get_text(paragraphs[k])]

\* "\n\n".join(filter(None, text_parts)): the empty parts are dropped
RECURSIVE JoinParts(_)
JoinParts(parts) ==
    IF parts = <<>> THEN <<>>
    ELSE IF Head(parts) = <<>> THEN JoinParts(Tail(parts))
    ELSE LET rest == JoinParts(Tail(parts))
         IN IF rest = <<>> THEN Head(parts)
            ELSE Head(parts) \o Txt("ws", 2) \o rest

\* An article container of the page: its direct <p> children, the length of
\* its text, and all the <p> elements below it
TagParas == {<<>>, <<RawPara(198)>>, <<RawPara(25001)>>, <<RawPara(99), RawPara(99)>>}
TagSet == {[direct_p |-> d, text_len |-> TextLen(JoinParts(text_parts(ps))), paragraphs |-> ps] :
              ps \in TagParas, d \in 0..1}

Pages == [tags : SeqsUpTo(TagSet, MaxTags), paragraphs : ParaLists]
NoPage == [tags |-> <<>>, paragraphs |-> <<>>]

FailureKinds == {"timeout", "request_error", "parse_error"}
Responses ==
    {[kind |-> k, page |-> NoPage] : k \in FailureKinds}
        \cup {[kind |-> "ok", page |-> p] : p \in Pages}

\* The loop over main_content_tags: the tag with the most direct <p>
\* children, the longer text breaking a tie
RECURSIVE best_candidate(_, _, _)
best_candidate(tags, best, max_p_count) ==
    IF tags = <<>> THEN best
    ELSE LET tag == Head(tags)
         IN IF tag.direct_p > max_p_count
               THEN best_candidate(Tail(tags), Some(tag), tag.direct_p)
            ELSE IF tag.direct_p = max_p_count /\ best.some
                       /\ tag.text_len > best.val.text_len
               THEN best_candidate(Tail(tags), Some(tag), max_p_count)
            ELSE best_candidate(Tail(tags), best, max_p_count)

NoTag == [direct_p |-> 0, text_len |-> 0, paragraphs |-> <<>>]

\* content_element.find_all('p'): of the best container, else of the document
content_paragraphs(page) ==
    LET best == best_candidate(page.tags, [some |-> FALSE, val |-> NoTag], -1)
    IN IF best.some THEN best.val.paragraphs ELSE page.paragraphs

full_text_of(page) == JoinParts(text_parts(content_paragraphs(page)))

\* not full_text.strip() or len(full_text.strip()) < 200
TooShort(full_text) ==
    Strip(full_text) = <<>> \/ TextLen(Strip(full_text)) < MIN_EXTRACTED_CHARS

TruncateNever(full_text) == full_text

\* full_text[:max_chars_for_summary] when it is longer than the budget
Truncate(full_text) ==
    IF TextLen(full_text) > max_chars_for_summary
       THEN Prefix(full_text, max_chars_for_summary)
       ELSE full_text

fetch_full_article_text(response) ==
    IF response.kind # "ok" THEN None
    ELSE LET full_text == full_text_of(response.page)
         IN IF TooShort(full_text) THEN None ELSE Some(Truncate(full_text))

\* --------------------------------------------- summarize_text_with_gemini

\* What the generative service can answer: a summary, a response without
\* candidates (a safety block), or an exception of the call
ApiOutcomes == {"summary", "response_issue", "api_error"}

summarize_text_with_gemini(text, model_ready, outcome) ==
    IF ~model_ready THEN "not_initialized"
    ELSE IF text = <<>> \/ TextLen(Strip(text)) < MIN_SUMMARY_INPUT_CHARS
       THEN "insufficient_content"
    ELSE outcome

\* ------------------------------------------------------------ group_articles

Titles == {"A", "B", "C"}

\* fuzz.token_sort_ratio over the titles: a symmetric score, 100 for equal
\* titles; a pair of distinct titles scores at the threshold or just below it
TitlePairs == {{a, b} : a, b \in Titles} \ {{a} : a \in Titles}
ScoreTable(similar) ==
    [p \in Titles \X Titles |->
        IF p[1] = p[2] THEN 100
        ELSE IF {p[1], p[2]} \in similar THEN TITLE_SIMILARITY_THRESHOLD
        ELSE TITLE_SIMILARITY_THRESHOLD - 1]
ScoreTables == {ScoreTable(similar) : similar \in SUBSET TitlePairs}
\* "A" and "C" both resemble "B" and not each other
ChainTable == ScoreTable({{"A", "B"}, {"B", "C"}})

SimilarStrictly(article1, article2, score) ==
    score[<<article1.title, article2.title>>] > TITLE_SIMILARITY_THRESHOLD

\* similarity_score >= TITLE_SIMILARITY_THRESHOLD
Similar(article1, article2, score) ==
    score[<<article1.title, article2.title>>] >= TITLE_SIMILARITY_THRESHOLD

SkipInnerIgnoringProcessed(i, j, processed_indices) == j <= i

\* if j <= i or j in processed_indices: continue
SkipInner(i, j, processed_indices) == j <= i \/ j \in processed_indices

\* The inner loop from j on: the cluster of seed i and the processed indices
RECURSIVE inner_scan(_, _, _, _, _, _)
inner_scan(articles, score, i, j, current_cluster, processed_indices) ==
    IF j > Len(articles)
       THEN [cluster |-> current_cluster, processed |-> processed_indices]
    ELSE IF SkipInner(i, j, processed_indices)
       THEN inner_scan(articles, score, i, j + 1, current_cluster, processed_indices)
    ELSE IF Similar(articles[i], articles[j], score)
       THEN inner_scan(articles, score, i, j + 1,
                       Append(current_cluster, articles[j]), processed_indices \cup {j})
    ELSE inner_scan(articles, score, i, j + 1, current_cluster, processed_indices)

\* The outer loop from i on
RECURSIVE outer_loop(_, _, _, _, _)
outer_loop(articles, score, i, story_clusters, processed_indices) ==
    IF i > Len(articles) THEN story_clusters
    ELSE IF i \in processed_indices
       THEN outer_loop(articles, score, i + 1, story_clusters, processed_indices)
    ELSE LET r == inner_scan(articles, score, i, 1, <<articles[i]>>,
                             processed_indices \cup {i})
         IN outer_loop(articles, score, i + 1,
                       Append(story_clusters, r.cluster), r.processed)

group_articles(articles, score) == outer_loop(articles, score, 1, <<>>, {})

\* -------------------------------------------------------------- the ranking

PubDateLess(a, b) == a.pub_date < b.pub_date

SortCandidatesNot(articles) == articles

\* all_candidate_articles.sort(key=lambda x: x["pub_date"], reverse=True)
SortCandidates(articles) ==
    StableSortDesc(articles,
        [p \in IndexPairs(articles) |-> PubDateLess(articles[p[1]], articles[p[2]])])

\* cluster.sort(key=lambda x: x['pub_date'], reverse=True)
SortCluster(cluster) ==
    StableSortDesc(cluster,
        [p \in IndexPairs(cluster) |-> PubDateLess(cluster[p[1]], cluster[p[2]])])

RepresentativeLast(cluster) == cluster[Len(cluster)]

\* representative_article = cluster[0]
Representative(cluster) == cluster[1]

ranked_story(cluster) ==
    LET sorted == SortCluster(cluster)
        representative_article == Representative(sorted)
    IN [representative_article_title |-> representative_article.title,
        repetition_count |-> Len(sorted),
        most_recent_pub_date |-> representative_article.pub_date,
        articles_in_cluster |-> sorted,
        representative_article_for_summary |-> representative_article]

RankKeyLessDateOnly(x, y) == x.most_recent_pub_date < y.most_recent_pub_date

\* key=lambda x: (x["repetition_count"], x["most_recent_pub_date"])
RankKeyLess(x, y) ==
    \/ x.repetition_count < y.repetition_count
    \/ /\ x.repetition_count = y.repetition_count
       /\ x.most_recent_pub_date < y.most_recent_pub_date

\* The loop over story_clusters (empty clusters skipped), then
\* ranked_stories.sort(key=..., reverse=True)
rank_stories(clusters) ==
    LET kept == SelectSeq(clusters, LAMBDA c : c # <<>>)
        stories == [k \in 1..Len(kept) |-> ranked_story(kept[k])]
    IN StableSortDesc(stories,
           [p \in IndexPairs(stories) |-> RankKeyLess(stories[p[1]], stories[p[2]])])

TextForGeminiTeaserOnly(content, article) == article.content_for_summary

\* full_content if full_content else article_to_summarize['content_for_summary']
TextForGemini(content, article) ==
    IF Truthy(content) THEN content.val ELSE article.content_for_summary

\* ------------------------------------------------------------ the feed entries

\* entry.get("published_parsed"): absent, a time struct datetime() rejects,
\* or the struct of the hour t
Missing == [present |-> FALSE, valid |-> FALSE, t |-> 0]
Unparseable == [present |-> TRUE, valid |-> FALSE, t |-> 0]
At(t) == [present |-> TRUE, valid |-> TRUE, t |-> t]

NoDate == [some |-> FALSE, val |-> 0]

get_aware_datetime(time_struct) ==
    IF time_struct.present
       THEN IF time_struct.valid THEN [some |-> TRUE, val |-> time_struct.t] ELSE NoDate
       ELSE NoDate

\* The hour of the run: datetime.datetime.now(pytz.utc)
RunNow == HOURS_WINDOW + 1

\* No timestamp, a bad one, one hour too old, the oldest hour of the window,
\* the hour of the run, an hour after the run
StampSeq == <<Missing, Unparseable, At(RunNow - HOURS_WINDOW - 1),
              At(RunNow - HOURS_WINDOW), At(RunNow), At(RunNow + 1)>>
TitleSeq == <<"A", "B", "C">>
\* The feed's summary of a story: long, absent, too short to summarize
TeaserSeq == <<Txt("t", MIN_SUMMARY_INPUT_CHARS + 50), <<>>, Txt("t", MIN_SUMMARY_INPUT_CHARS - 1)>>

Entry(ti, si) ==
    [id |-> (ti - 1) * Len(StampSeq) + si,
     title |-> TitleSeq[ti],
     link |-> <<"http", (ti - 1) * Len(StampSeq) + si>>,
     published_parsed |-> StampSeq[si],
     summary |-> TeaserSeq[ti]]

Entries == {Entry(ti, si) : ti \in 1..Len(TitleSeq), si \in 1..Len(StampSeq)}

EntryById(id) == CHOOSE e \in Entries : e.id = id

\* The dict appended to all_candidate_articles
Article(entry, pub_date) ==
    [title |-> entry.title,
     link |-> entry.link,
     pub_date |-> pub_date,
     content_for_summary |-> entry.summary,
     id |-> entry.id]

NoArticle ==
    [title |-> "", link |-> <<>>, pub_date |-> 0, content_for_summary |-> <<>>, id |-> 0]

\* --------------------------------------------------------------- the state

VARIABLES
    pc,                     \* where the run is
    gemini,                 \* [key, model]: GEMINI_API_KEY is set, model is not None
    now_utc,
    feed_idx,               \* the feed of SOURCE_RSS_FEEDS being processed
    items_from_this_feed,
    all_candidate_articles,
    similarity,             \* fuzz.token_sort_ratio on the titles
    story_clusters,
    ranked_stories,
    article_to_summarize,
    response,               \* what requests.get answered
    fetch_log,              \* the urls passed to fetch_full_article_text
    full_content,
    text_for_gemini,
    summarizer_calls,       \* the texts passed to summarize_text_with_gemini
    ai_summary,
    final_rss_items,
    output_file,            \* the items in OUTPUT_RSS_FILE, if it was written
    write_failed,           \* the write raised IOError
    exit_status             \* "running", "finished" (main returned), "failed"

vars == <<pc, gemini, now_utc, feed_idx, items_from_this_feed, all_candidate_articles,
          similarity, story_clusters, ranked_stories, article_to_summarize, response,
          fetch_log, full_content, text_for_gemini, summarizer_calls, ai_summary,
          final_rss_items, output_file, write_failed, exit_status>>

time_cutoff == now_utc - HOURS_WINDOW

\* The module-level initialization: no key, a key and a failed
\* initialization, a key and a model
GeminiStates ==
    {[key |-> FALSE, model |-> FALSE], [key |-> TRUE, model |-> FALSE],
     [key |-> TRUE, model |-> TRUE]}

NoResponse == [kind |-> "none", page |-> NoPage]

Start(at, feed, g, articles, score, article) ==
    /\ pc = at
    /\ gemini = g
    /\ now_utc = RunNow
    /\ feed_idx = feed
    /\ items_from_this_feed = 0
    /\ all_candidate_articles = articles
    /\ similarity = score
    /\ story_clusters = <<>>
    /\ ranked_stories = <<>>
    /\ article_to_summarize = article
    /\ response = NoResponse
    /\ fetch_log = <<>>
    /\ full_content = None
    /\ text_for_gemini = <<>>
    /\ summarizer_calls = <<>>
    /\ ai_summary = ""
    /\ final_rss_items = <<>>
    /\ output_file = None
    /\ write_failed = FALSE
    /\ exit_status = "running"

Init == \E g \in GeminiStates : Start("feeds", 1, g, <<>>, ChainTable, NoArticle)

\* ------------------------------------------------------------- the actions

\* feedparser.parse(feed_url): the entries of the feed, or an exception and
\* the next feed
ParseFeed ==
    /\ pc = "feeds"
    /\ feed_idx <= NumFeeds
    /\ \E parsed \in BOOLEAN :
        IF parsed
           THEN /\ pc' = "entries"
                /\ items_from_this_feed' = 0
                /\ feed_idx' = feed_idx
           ELSE /\ pc' = "feeds"
                /\ feed_idx' = feed_idx + 1
                /\ items_from_this_feed' = items_from_this_feed
    /\ UNCHANGED <<gemini, now_utc, all_candidate_articles, similarity, story_clusters,
                   ranked_stories, article_to_summarize, response, fetch_log,
                   full_content, text_for_gemini, summarizer_calls, ai_summary,
                   final_rss_items, output_file, write_failed, exit_status>>

\* if pub_date and pub_date >= time_cutoff
IsRecent(pub_date) == pub_date.some /\ pub_date.val >= time_cutoff

\* One pass of the loop over parsed_feed.entries
ProcessEntry ==
    /\ pc = "entries"
    /\ items_from_this_feed < MAX_ITEMS_PER_SOURCE_FEED
    /\ \E entry \in Entries :
        LET pub_date == get_aware_datetime(entry.published_parsed)
        IN IF IsRecent(pub_date)
              THEN /\ Len(all_candidate_articles) < MaxArticles
                   /\ all_candidate_articles' =
                          Append(all_candidate_articles, Article(entry, pub_date.val))
              ELSE all_candidate_articles' = all_candidate_articles
    /\ items_from_this_feed' = items_from_this_feed + 1
    /\ UNCHANGED <<pc, gemini, now_utc, feed_idx, similarity, story_clusters,
                   ranked_stories, article_to_summarize, response, fetch_log,
                   full_content, text_for_gemini, summarizer_calls, ai_summary,
                   final_rss_items, output_file, write_failed, exit_status>>

\* The loop over the entries ends: no entry is left, or the cap is reached
EndFeed ==
    /\ pc = "entries"
    /\ pc' = "feeds"
    /\ feed_idx' = feed_idx + 1
    /\ UNCHANGED <<gemini, now_utc, items_from_this_feed, all_candidate_articles,
                   similarity, story_clusters, ranked_stories, article_to_summarize,
                   response, fetch_log, full_content, text_for_gemini,
                   summarizer_calls, ai_summary, final_rss_items, output_file,
                   write_failed, exit_status>>

\* After the last feed: the sort of the candidates, and the return when
\* there is none
SortAndCheck ==
    /\ pc = "feeds"
    /\ feed_idx > NumFeeds
    /\ all_candidate_articles' = SortCandidates(all_candidate_articles)
    /\ IF all_candidate_articles = <<>>
          THEN pc' = "done" /\ exit_status' = "finished"
          ELSE pc' = "group" /\ exit_status' = exit_status
    /\ UNCHANGED <<gemini, now_utc, feed_idx, items_from_this_feed, similarity,
                   story_clusters, ranked_stories, article_to_summarize, response,
                   fetch_log, full_content, text_for_gemini, summarizer_calls,
                   ai_summary, final_rss_items, output_file, write_failed>>

\* story_clusters = group_articles(all_candidate_articles)
GroupArticles ==
    /\ pc = "group"
    /\ story_clusters' = group_articles(all_candidate_articles, similarity)
    /\ pc' = "rank"
    /\ UNCHANGED <<gemini, now_utc, feed_idx, items_from_this_feed,
                   all_candidate_articles, similarity, ranked_stories,
                   article_to_summarize, response, fetch_log, full_content,
                   text_for_gemini, summarizer_calls, ai_summary, final_rss_items,
                   output_file, write_failed, exit_status>>

\* The ranking; cluster.sort sorts the lists story_clusters holds
RankStories ==
    /\ pc = "rank"
    /\ ranked_stories' = rank_stories(story_clusters)
    /\ story_clusters' = [k \in 1..Len(story_clusters) |-> SortCluster(story_clusters[k])]
    /\ pc' = "select"
    /\ UNCHANGED <<gemini, now_utc, feed_idx, items_from_this_feed,
                   all_candidate_articles, similarity, article_to_summarize, response,
                   fetch_log, full_content, text_for_gemini, summarizer_calls,
                   ai_summary, final_rss_items, output_file, write_failed, exit_status>>

PlaceholderItem ==
    [kind |-> "placeholder", title |-> "No prominent news topics identified",
     link |-> <<>>, description |-> "", pubDate |-> now_utc]

\* if not ranked_stories: the default item; else the top story's representative
SelectTop ==
    /\ pc = "select"
    /\ IF ranked_stories = <<>>
          THEN /\ final_rss_items' = Append(final_rss_items, PlaceholderItem)
               /\ article_to_summarize' = article_to_summarize
               /\ pc' = "write"
          ELSE /\ article_to_summarize' =
                      ranked_stories[1].representative_article_for_summary
               /\ final_rss_items' = final_rss_items
               /\ pc' = "fetch"
    /\ UNCHANGED <<gemini, now_utc, feed_idx, items_from_this_feed,
                   all_candidate_articles, similarity, story_clusters, ranked_stories,
                   response, fetch_log, full_content, text_for_gemini,
                   summarizer_calls, ai_summary, output_file, write_failed, exit_status>>

\* full_content = fetch_full_article_text(article_to_summarize['link']), the
\* page answering one of `answers`, and the choice of text_for_gemini
FetchFullContent(answers) ==
    /\ pc = "fetch"
    /\ \E r \in answers :
        /\ response' = r
        /\ full_content' = fetch_full_article_text(r)
        /\ text_for_gemini' = TextForGemini(fetch_full_article_text(r), article_to_summarize)
    /\ fetch_log' = Append(fetch_log, article_to_summarize.link)
    /\ pc' = "summarize"
    /\ UNCHANGED <<gemini, now_utc, feed_idx, items_from_this_feed,
                   all_candidate_articles, similarity, story_clusters, ranked_stories,
                   article_to_summarize, summarizer_calls, ai_summary, final_rss_items,
                   output_file, write_failed, exit_status>>

\* The answers of a run: each failure, a page with too little text, a page
\* with an article
RunResponses ==
    {[kind |-> k, page |-> NoPage] : k \in FailureKinds}
        \cup {[kind |-> "ok", page |-> [tags |-> <<>>, paragraphs |-> <<RawPara(n)>>]] :
                 n \in {MIN_EXTRACTED_CHARS - 1, MIN_EXTRACTED_CHARS}}

Fetch == FetchFullContent(RunResponses)

\* Every page and failure of Responses
FetchAny == FetchFullContent(Responses)

StoryItem(summary) ==
    [kind |-> "story", title |-> article_to_summarize.title,
     link |-> article_to_summarize.link, description |-> summary,
     pubDate |-> article_to_summarize.pub_date]

\* The summary (or the reason there is none) and the item of the story
Summarize ==
    /\ pc = "summarize"
    /\ \E outcome \in ApiOutcomes :
        LET called == gemini.model /\ gemini.key /\ text_for_gemini # <<>>
            summary ==
                IF called
                   THEN summarize_text_with_gemini(text_for_gemini, gemini.model, outcome)
                ELSE IF ~gemini.key THEN "api_key_missing"
                ELSE IF ~gemini.model THEN "model_initialization_failed"
                ELSE "no_content"
        IN /\ summarizer_calls' =
                  IF called THEN Append(summarizer_calls, text_for_gemini)
                  ELSE summarizer_calls
           /\ ai_summary' = summary
           /\ final_rss_items' = Append(final_rss_items, StoryItem(summary))
    /\ pc' = "write"
    /\ UNCHANGED <<gemini, now_utc, feed_idx, items_from_this_feed,
                   all_candidate_articles, similarity, story_clusters, ranked_stories,
                   article_to_summarize, response, fetch_log, full_content,
                   text_for_gemini, output_file, write_failed, exit_status>>

\* The write of OUTPUT_RSS_FILE; an IOError is caught and printed, and main
\* returns either way
WriteFeed ==
    /\ pc = "write"
    /\ \E written \in BOOLEAN :
        /\ output_file' = IF written THEN Some(final_rss_items) ELSE output_file
        /\ write_failed' = ~written
    /\ exit_status' = "finished"
    /\ pc' = "done"
    /\ UNCHANGED <<gemini, now_utc, feed_idx, items_from_this_feed,
                   all_candidate_articles, similarity, story_clusters, ranked_stories,
                   article_to_summarize, response, fetch_log, full_content,
                   text_for_gemini, summarizer_calls, ai_summary, final_rss_items>>

Next ==
    \/ ParseFeed
    \/ ProcessEntry
    \/ EndFeed
    \/ SortAndCheck
    \/ GroupArticles
    \/ RankStories
    \/ SelectTop
    \/ Fetch
    \/ Summarize
    \/ WriteFeed

Spec == Init /\ [][Next]_vars

\* ------------------------------------ group_articles on every input list

\* Articles in any order, the id of each its index in the list
GroupInputs ==
    {[k \in 1..Len(ts) |->
         [title |-> ts[k], link |-> <<"http", k>>, pub_date |-> RunNow,
          content_for_summary |-> <<>>, id |-> k]] :
        ts \in SeqsUpTo(Titles, MaxGroupInput)}

InitGroup ==
    \E articles \in GroupInputs, score \in ScoreTables :
        Start("group", NumFeeds + 1, [key |-> TRUE, model |-> TRUE], articles, score, NoArticle)

SpecGroup == InitGroup /\ [][GroupArticles]_vars

\* -------------------------- the ranking under every similarity of titles

\* The candidates a run can end its ingestion with, in the order of ingestion
FreshEntries ==
    {e \in Entries :
        LET pub_date == get_aware_datetime(e.published_parsed)
        IN pub_date.some /\ pub_date.val >= RunNow - HOURS_WINDOW}
CandidateLists ==
    SeqsUpTo({Article(e, e.published_parsed.t) : e \in FreshEntries}, MaxArticles)

\* The run after its last feed
InitRank ==
    \E articles \in CandidateLists, score \in ScoreTables :
        Start("feeds", NumFeeds + 1, [key |-> TRUE, model |-> TRUE], articles, score,
              NoArticle)

NextRank ==
    \/ SortAndCheck
    \/ GroupArticles
    \/ RankStories
    \/ SelectTop

SpecRank == InitRank /\ [][NextRank]_vars

\* ----------------------------- fetch_full_article_text on every response

InitExtract ==
    LET article == Article(Entry(1, Len(StampSeq) - 1), RunNow)
    IN \E g \in GeminiStates : Start("fetch", NumFeeds + 1, g, <<article>>, ChainTable, article)

SpecExtract == InitExtract /\ [][FetchAny]_vars

\* ------------------------------------------------------------ the properties

\* The (cluster, position) places of story_clusters
Places ==
    {pl \in (1..Len(story_clusters)) \X (1..MaxGroupInput) :
        pl[2] <= Len(story_clusters[pl[1]])}
ArticleAt(pl) == story_clusters[pl[1]][pl[2]]
PlacesOf(i) == {pl \in Places : ArticleAt(pl).id = i}

\* C1: group_articles returns a partition of its input: every input index is
\* at exactly one place of the returned clusters, every place holds an input
\* article, and no cluster is empty.  (Under SpecGroup the id of an article
\* is its index.)
C1_Partition ==
    pc = "rank" =>
        /\ \A k \in 1..Len(story_clusters) : story_clusters[k] # <<>>
        /\ \A i \in 1..Len(all_candidate_articles) : Cardinality(PlacesOf(i)) = 1
        /\ \A pl \in Places :
              /\ ArticleAt(pl).id \in 1..Len(all_candidate_articles)
              /\ ArticleAt(pl) = all_candidate_articles[ArticleAt(pl).id]

\* Of an input of full length several clusters were returned, one of them
\* with several members
C1_Witness ==
    /\ pc = "rank"
    /\ Len(story_clusters) >= 2
    /\ \E k \in 1..Len(story_clusters) : Len(story_clusters[k]) >= 2
    /\ Len(all_candidate_articles) = MaxGroupInput

Seeds == {story_clusters[k][1].id : k \in 1..Len(story_clusters)}
\* The seeds below j whose title scores at least the threshold with j's
MatchingSeeds(j) ==
    {i \in Seeds :
        /\ i < j
        /\ similarity[<<all_candidate_articles[i].title, all_candidate_articles[j].title>>]
              >= TITLE_SIMILARITY_THRESHOLD}
Least(S) == CHOOSE x \in S : \A y \in S : x <= y

\* C9: an article is a seed exactly when no seed of smaller index scores at
\* least the threshold with it, and an article that is no seed is a member of
\* the cluster of the least such seed; the clusters and their members come
\* in input order.
C9_GreedySeeds ==
    pc = "rank" =>
        /\ \A j \in 1..Len(all_candidate_articles) :
              IF MatchingSeeds(j) = {}
                 THEN j \in Seeds
                 ELSE /\ j \notin Seeds
                      /\ \E pl \in PlacesOf(j) :
                            story_clusters[pl[1]][1].id = Least(MatchingSeeds(j))
        /\ \A pl, ql \in Places :
              (pl[1] < ql[1] /\ pl[2] = 1 /\ ql[2] = 1) \/ (pl[1] = ql[1] /\ pl[2] < ql[2])
                  => ArticleAt(pl).id < ArticleAt(ql).id

\* An article that two seeds match joined the first, at a score equal to the
\* threshold
C9_Witness ==
    /\ pc = "rank"
    /\ \E j \in 1..Len(all_candidate_articles) :
          /\ Cardinality(MatchingSeeds(j)) >= 2
          /\ \A i \in MatchingSeeds(j) :
                similarity[<<all_candidate_articles[i].title,
                             all_candidate_articles[j].title>>] = TITLE_SIMILARITY_THRESHOLD

AfterRank == {"select", "fetch", "summarize", "write", "done"}

\* The place of a ranked story's cluster in the order group_articles emitted
EmissionIndex(r) ==
    CHOOSE m \in 1..Len(story_clusters) :
        story_clusters[m] = ranked_stories[r].articles_in_cluster

MaxDate(cluster) ==
    CHOOSE d \in {cluster[m].pub_date : m \in 1..Len(cluster)} :
        \A m \in 1..Len(cluster) : cluster[m].pub_date <= d

\* C2: ranked_stories holds every cluster once, by repetition_count
\* descending, then by most_recent_pub_date descending, clusters equal on
\* both in the order group_articles emitted them; the first story has the
\* greatest repetition_count.
C2_RankedOrder ==
    pc \in AfterRank /\ story_clusters # <<>> =>
        /\ Len(ranked_stories) = Len(story_clusters)
        /\ {EmissionIndex(r) : r \in 1..Len(ranked_stories)} = 1..Len(story_clusters)
        /\ \A r \in 1..Len(ranked_stories) :
              /\ ranked_stories[r].repetition_count =
                     Len(ranked_stories[r].articles_in_cluster)
              /\ ranked_stories[r].most_recent_pub_date =
                     MaxDate(ranked_stories[r].articles_in_cluster)
              /\ ranked_stories[1].repetition_count >= Len(story_clusters[r])
        /\ \A a, b \in 1..Len(ranked_stories) :
              a < b =>
                 LET x == ranked_stories[a]
                     y == ranked_stories[b]
                 IN \/ x.repetition_count > y.repetition_count
                    \/ /\ x.repetition_count = y.repetition_count
                       /\ x.most_recent_pub_date > y.most_recent_pub_date
                    \/ /\ x.repetition_count = y.repetition_count
                       /\ x.most_recent_pub_date = y.most_recent_pub_date
                       /\ EmissionIndex(a) < EmissionIndex(b)

\* The first story is older than a story of fewer repetitions
C2_Witness ==
    /\ pc = "select"
    /\ \E b \in 2..Len(ranked_stories) :
          /\ ranked_stories[1].repetition_count > ranked_stories[b].repetition_count
          /\ ranked_stories[1].most_recent_pub_date < ranked_stories[b].most_recent_pub_date

\* C3: a run that ends ingestion with no candidate article selects no story
\* and still hands one placeholder item to the output feed, which is written.
C3_EmptyRunWritesPlaceholder ==
    pc = "done" /\ all_candidate_articles = <<>> =>
        /\ article_to_summarize = NoArticle
        /\ Len(final_rss_items) = 1
        /\ final_rss_items[1].kind = "placeholder"
        /\ output_file.some \/ write_failed

InCluster(article, cluster) == \E m \in 1..Len(cluster) : cluster[m] = article

\* C4: in a run with a candidate, the one link passed to
\* fetch_full_article_text is the link of a member of the first ranked
\* cluster that has the latest pub_date of its members, and the output item
\* carries that article's title, link and date.
C4_FetchedIsNewestOfTop ==
    /\ pc \notin {"summarize", "write", "done"} => fetch_log = <<>>
    /\ pc \in {"summarize", "write", "done"} /\ all_candidate_articles # <<>> =>
          LET top == ranked_stories[1].articles_in_cluster
          IN /\ fetch_log = <<article_to_summarize.link>>
             /\ InCluster(article_to_summarize, top)
             /\ \A m \in 1..Len(top) : top[m].pub_date <= article_to_summarize.pub_date
             /\ pc \in {"write", "done"} =>
                   /\ Len(final_rss_items) = 1
                   /\ final_rss_items[1].title = article_to_summarize.title
                   /\ final_rss_items[1].link = article_to_summarize.link
                   /\ final_rss_items[1].pubDate = article_to_summarize.pub_date

\* The top cluster has members of different dates and is not the only one
C4_Witness ==
    /\ pc = "done"
    /\ Len(ranked_stories) >= 2
    /\ \E m \in 1..Len(ranked_stories[1].articles_in_cluster) :
          ranked_stories[1].articles_in_cluster[m].pub_date < article_to_summarize.pub_date
    /\ Len(fetch_log) = 1

\* C5: a failed write of the output file fails the run, and nothing else does.
C5_WriteFailureFailsRun ==
    pc = "done" => (exit_status = "failed") = write_failed

\* p is t[:k] for some k
RECURSIVE IsPrefix(_, _)
IsPrefix(p, t) ==
    \/ p = <<>>
    \/ /\ t # <<>>
       /\ Head(p).ch = Head(t).ch
       /\ \/ Head(p).n = Head(t).n /\ IsPrefix(Tail(p), Tail(t))
          \/ Head(p).n < Head(t).n /\ Len(p) = 1

\* The characters of the paragraphs joined: those of the parts that are not
\* empty, and two for each separator between them
RECURSIVE JoinedLen(_, _)
JoinedLen(paragraphs, before) ==
    IF paragraphs = <<>> THEN 0
    ELSE LET n == TextLen(Strip(Head(paragraphs)))
         IN IF n = 0 THEN JoinedLen(Tail(paragraphs), before)
            ELSE n + (IF before THEN 2 ELSE 0) + JoinedLen(Tail(paragraphs), TRUE)

\* C6: fetch_full_article_text returns None or a text of 200 to 25000
\* characters: None when the request or the parse fails and when the
\* paragraphs hold less than 200 characters, the text's first 25000
\* characters when they hold more than 25000, and else the text.
C6_ExtractedLength ==
    pc = "summarize" =>
        LET paragraphs == content_paragraphs(response.page)
            n == JoinedLen(paragraphs, FALSE)
        IN /\ full_content.some =>
                 /\ TextLen(full_content.val) >= MIN_EXTRACTED_CHARS
                 /\ TextLen(full_content.val) <= max_chars_for_summary
           /\ response.kind # "ok" => ~full_content.some
           /\ response.kind = "ok" /\ n < MIN_EXTRACTED_CHARS => ~full_content.some
           /\ response.kind = "ok" /\ n >= MIN_EXTRACTED_CHARS =>
                 /\ full_content.some
                 /\ IsPrefix(full_content.val, full_text_of(response.page))
                 /\ TextLen(full_content.val) =
                        IF n > max_chars_for_summary THEN max_chars_for_summary ELSE n

\* A page with more text than the budget was cut
C6_Witness ==
    /\ pc = "summarize"
    /\ response.kind = "ok"
    /\ JoinedLen(content_paragraphs(response.page), FALSE) > max_chars_for_summary
    /\ full_content.some
    /\ full_content.val # full_text_of(response.page)

\* C7: the text for the summarizer is the extracted text when the extraction
\* succeeded and else the feed's teaser; the summarizer, when there is one,
\* is called once with that text unless the text is empty, and is not called
\* with an empty text; a failed fetch does not stop the run, which emits the
\* item of the story.
C7_LayeredFallback ==
    pc \in {"write", "done"} /\ all_candidate_articles # <<>> =>
        /\ full_content.some => text_for_gemini = full_content.val
        /\ ~full_content.some => text_for_gemini = article_to_summarize.content_for_summary
        /\ response.kind \in FailureKinds => ~full_content.some
        /\ summarizer_calls =
              IF gemini.key /\ gemini.model /\ text_for_gemini # <<>>
                 THEN <<text_for_gemini>> ELSE <<>>
        /\ ~full_content.some /\ article_to_summarize.content_for_summary = <<>> =>
              summarizer_calls = <<>> /\ ai_summary \notin ApiOutcomes
        /\ Len(final_rss_items) = 1
        /\ final_rss_items[1].kind = "story"
        /\ final_rss_items[1].description = ai_summary
        /\ pc = "done" => exit_status = "finished"

\* The fetch timed out and the teaser went to the summarizer
C7_Witness ==
    /\ pc = "done"
    /\ response.kind = "timeout"
    /\ article_to_summarize.content_for_summary # <<>>
    /\ summarizer_calls = <<article_to_summarize.content_for_summary>>
    /\ output_file.some

\* C8: every candidate article comes of an entry whose timestamp is present,
\* parseable and within the HOURS_WINDOW hours that end at now_utc.
C8_CandidatesWithinWindow ==
    \A k \in 1..Len(all_candidate_articles) :
        LET stamp == EntryById(all_candidate_articles[k].id).published_parsed
        IN /\ stamp.present
           /\ stamp.valid
           /\ stamp.t >= now_utc - HOURS_WINDOW
           /\ stamp.t <= now_utc

\* What of C8 the code keeps: a candidate's timestamp is present, parseable
\* and not before the cutoff, and is the candidate's pub_date
CandidatesNotBeforeCutoff ==
    \A k \in 1..Len(all_candidate_articles) :
        LET stamp == EntryById(all_candidate_articles[k].id).published_parsed
        IN /\ stamp.present
           /\ stamp.valid
           /\ stamp.t >= now_utc - HOURS_WINDOW
           /\ stamp.t = all_candidate_articles[k].pub_date

SortedDesc(cluster) ==
    \A m \in 1..(Len(cluster) - 1) : cluster[m].pub_date >= cluster[m + 1].pub_date

\* C10: no step after group_articles changes a cluster: each cluster is
\* emitted by pub_date descending, so the sort of the ranking step leaves it
\* as it is, and the representative the ranking takes of it is its seed, the
\* first article of the cluster as emitted.
C10_ClustersUnchanged ==
    [][/\ pc # "group" => story_clusters' = story_clusters
       /\ pc = "rank" =>
             /\ Len(ranked_stories') = Len(story_clusters)
             /\ \A k \in 1..Len(story_clusters) :
                   /\ SortedDesc(story_clusters[k])
                   /\ \E r \in 1..Len(ranked_stories') :
                         /\ ranked_stories'[r].articles_in_cluster = story_clusters[k]
                         /\ ranked_stories'[r].representative_article_for_summary =
                                story_clusters[k][1]]_vars

\* A cluster of articles of different dates was ranked
C10_Witness ==
    /\ pc = "select"
    /\ \E k \in 1..Len(story_clusters) :
          /\ Len(story_clusters[k]) >= 2
          /\ story_clusters[k][1].pub_date > story_clusters[k][Len(story_clusters[k])].pub_date

====
